---------------------------- MODULE Spec2Model ----------------------------
(***************************************************************************)
(* A model of two parts of the repository:                                 *)
(*                                                                         *)
(*  1. the REST resource API as the CRUD test mixin drives it              *)
(*     (src/tests/case/api/crud.py): the requests the tests send, the      *)
(*     credentials they build, and the backend records with their          *)
(*     created/modified/deleted metadata.  Specifications: Spec (the       *)
(*     clock frozen at utcnow, as setUp leaves it) and SpecClock (the      *)
(*     clock moving).                                                      *)
(*                                                                         *)
(*  2. the remote-object form layer (src/ui/tcmui/core/forms.py):          *)
(*     AddEditForm (SpecForm), and ModelChoiceField and                    *)
(*     ModelMultipleChoiceField with their ModelChoiceIterator             *)
(*     (SpecChoice).                                                       *)
(***************************************************************************)
EXTENDS Integers, Sequences, FiniteSets, TLC

VARIABLES
    records,    \* backend storage: id -> record (fields and metadata)
    nextId,     \* the id the backend gives to the next created record
    now,        \* the backend clock, datetime.utcnow()
    resp,       \* the request served by the last step, with its response
    mock_utcnow,    \* whether datetime.utcnow is patched to return utcnow
    \* AddEditForm
    fields,         \* self.fields: field name -> [required]
    field_mapping,  \* form field name -> model field name
    no_edit_fields,
    assign_later,
    instance,       \* self.instance: None, or the remote object's attributes
    cleaned_data,   \* self.cleaned_data: field name -> cleaned value
    errors,         \* self._errors: field name -> error list
    call,           \* the form method that has run, with what it did
    \* ModelChoiceField
    multiple,       \* whether the field is a ModelMultipleChoiceField
    empty_label,    \* self.empty_label
    cache_choices,  \* self.cache_choices
    required,       \* self.required
    obj_list,       \* self._obj_list
    obj_map,        \* self._obj_map: id -> object
    choice_cache,   \* self.choice_cache
    widget_choices, \* self.widget.choices: the obj_list of its iterator
    last            \* the last iteration of the choices, with what it yielded

apiVars == <<records, nextId, now, resp, mock_utcnow>>

formVars == <<fields, field_mapping, no_edit_fields, assign_later, instance,
              cleaned_data, errors, call>>

choiceVars == <<multiple, empty_label, cache_choices, required, obj_list, obj_map,
                choice_cache, widget_choices, last>>

vars == <<records, nextId, now, resp, mock_utcnow, fields, field_mapping, no_edit_fields,
          assign_later, instance, cleaned_data, errors, call, multiple,
          empty_label, cache_choices, required, obj_list, obj_map, choice_cache,
          widget_choices, last>>

\* what a step of one part leaves alone
apiFrame == <<mock_utcnow, formVars, choiceVars>>
formFrame == <<apiVars, choiceVars>>
choiceFrame == <<apiVars, formVars>>

---------------------------------------------------------------------------
(* Bounds of the model.                                                    *)

MaxRecords == 2     \* records ever created (ids 1..MaxRecords)
MaxTicks == 2       \* clock ticks after utcnow
MaxClockRecords == 1    \* records ever created while the clock moves
MaxErrFields == 2   \* fields a conflict reports
MaxObjList == 2     \* objects in an obj_list
MaxValues == 2      \* values in a submitted list

---------------------------------------------------------------------------
(* Optional values: Python's None and a set value.                         *)

None == <<>>
Some(x) == <<x>>

---------------------------------------------------------------------------
(* The test fixture of ApiCrudCases.                                       *)

\* datetime(2011, 12, 13, 22, 39), in minutes since 2011-12-13 00:00
utcnow == 1359

permission == "library.manage_suites"

\* mutant: the wrong permission is the permission the resource requires
wrong_permissions_is_permission == permission

wrong_permissions == "core.manage_products"

\* setUp: the user created with the required permission, and their API key
user == "user"
apikey == "apikey_user"

\* the user the wrong-permission tests create, and their API key
wrong_user == "wrong_user"
wrong_apikey == "apikey_wrong_user"

Users == {user, wrong_user}

\* mutant: every user is created with the required permission
UserPermissions_all(u) == {permission, wrong_permissions}

UserPermissions(u) ==
    IF u = user THEN {permission}
    ELSE IF u = wrong_user THEN {wrong_permissions}
    ELSE {}

KeyOwner(k) ==
    IF k = apikey THEN Some(user)
    ELSE IF k = wrong_apikey THEN Some(wrong_user)
    ELSE None

Params(username, api_key, permanent) ==
    [username |-> username, api_key |-> api_key, permanent |-> permanent]

\* setUp: self.credentials
credentials == Params(Some(user), Some(apikey), FALSE)

\* test_delete_detail_permanent: params = credentials + {"permanent": True}
permanent_params == [credentials EXCEPT !.permanent = TRUE]

\* test_delete_fails_with_wrong_perms: the wrong user with their own key
wrong_credentials == Params(Some(wrong_user), Some(wrong_apikey), FALSE)

\* test_create_fails_with_wrong_perms: the wrong user with the key created
\* for self.user (owner=self.user)
create_wrong_credentials == Params(Some(wrong_user), Some(apikey), FALSE)

\* a request sent without params (test_update_fails_without_creds, the GETs)
no_credentials == Params(None, None, FALSE)

\* the field values of a fixture the factory creates
fixture_data == "fixture_data"

\* new_object_data: the payloads a test may submit
Payloads == {"new_object_data"}

---------------------------------------------------------------------------
(* The requests the test cases send.                                       *)

Ids == 1..MaxRecords

Request(method, target, id, params, payload) ==
    [method |-> method, target |-> target, id |-> id,
     params |-> params, payload |-> payload]

\* test_create
create_request(payload) ==
    Request("POST", "list", 0, credentials, Some(payload))

\* test_create_fails_with_wrong_perms
create_wrong_perms_request(payload) ==
    Request("POST", "list", 0, create_wrong_credentials, Some(payload))

\* test_read_list: no creds
read_list_request == Request("GET", "list", 0, no_credentials, None)

\* test_read_detail: no creds
read_detail_request(id) == Request("GET", "detail", id, no_credentials, None)

\* mutant: the update is sent without params
update_request_no_params(id, payload) ==
    Request("PUT", "detail", id, Params(None, None, FALSE), Some(payload))

\* test_update_detail
update_request(id, payload) ==
    Request("PUT", "detail", id, credentials, Some(payload))

\* mutant: the list update is addressed to a detail URL
update_list_request_detail_url(payload) ==
    Request("PUT", "detail", 1, credentials, Some(payload))

\* test_update_list_forbidden
update_list_request(payload) ==
    Request("PUT", "list", 0, credentials, Some(payload))

\* test_update_fails_without_creds
update_without_creds_request(id, payload) ==
    Request("PUT", "detail", id, no_credentials, Some(payload))

\* mutant: the permanent flag is not sent
delete_permanent_request_unflagged(id) ==
    Request("DELETE", "detail", id, credentials, None)

\* test_delete_detail_permanent
delete_permanent_request(id) ==
    Request("DELETE", "detail", id, permanent_params, None)

\* mutant: the soft delete carries the permanent flag
delete_soft_request_permanent(id) ==
    Request("DELETE", "detail", id, permanent_params, None)

\* test_delete_detail_soft
delete_soft_request(id) ==
    Request("DELETE", "detail", id, credentials, None)

\* test_delete_list_forbidden
delete_list_request == Request("DELETE", "list", 0, credentials, None)

\* test_delete_fails_with_wrong_perms
delete_wrong_perms_request(id) ==
    Request("DELETE", "detail", id, wrong_credentials, None)

\* a POST by the wrong user authenticated with their own key
create_wrong_user_request(payload) ==
    Request("POST", "list", 0, wrong_credentials, Some(payload))

Requests ==
    {read_list_request, delete_list_request}
    \cup { create_request(p) : p \in Payloads }
    \cup { create_wrong_perms_request(p) : p \in Payloads }
    \cup { create_wrong_user_request(p) : p \in Payloads }
    \cup { update_list_request(p) : p \in Payloads }
    \cup { read_detail_request(id) : id \in Ids }
    \cup { delete_permanent_request(id) : id \in Ids }
    \cup { delete_soft_request(id) : id \in Ids }
    \cup { delete_wrong_perms_request(id) : id \in Ids }
    \cup { update_request(id, p) : id \in Ids, p \in Payloads }
    \cup { update_without_creds_request(id, p) : id \in Ids, p \in Payloads }

\* mutant: the total is the literal of the two-fixture test
exp_meta_two_fixtures(total) ==
    [limit |-> 20, next |-> None, offset |-> 0, previous |-> None,
     total_count |-> 2]

\* test_read_list: the meta data expected of a list of total records
exp_meta(total) ==
    [limit |-> 20, next |-> None, offset |-> 0, previous |-> None,
     total_count |-> total]

---------------------------------------------------------------------------
(* The backend and the resource API.                                       *)

HTTP_OK == 200
HTTP_CREATED == 201
HTTP_NO_CONTENT == 204
HTTP_UNAUTHORIZED == 401
HTTP_NOT_FOUND == 404
HTTP_METHOD_NOT_ALLOWED == 405

\* the page size of a list response
Limit == 20

\* a record as the model layer saves it the first time
NewRecord(payload, by, at) ==
    [fields |-> payload,
     created_by |-> by, created_on |-> Some(at),
     modified_by |-> by, modified_on |-> Some(at),
     deleted_by |-> None, deleted_on |-> None]

\* backend_object(id): the lookup raises ObjectDoesNotExist for a missing id
Exists(recs, id) == id \in DOMAIN recs

get_detail_url(id) == <<"detail", id>>

\* backend_data(backend_object): what the API shows of a record
backend_data(recs, id) ==
    [id |-> id, resource_uri |-> get_detail_url(id), fields |-> recs[id].fields]

\* backend_meta_data(backend_object)
backend_meta_data(recs, id) ==
    [created_on |-> recs[id].created_on, created_by |-> recs[id].created_by,
     modified_on |-> recs[id].modified_on, modified_by |-> recs[id].modified_by,
     deleted_on |-> recs[id].deleted_on, deleted_by |-> recs[id].deleted_by]

\* the API key sent belongs to the user named
Authenticated(params) ==
    /\ params.username # None
    /\ params.api_key # None
    /\ KeyOwner(params.api_key[1]) = params.username

\* ... and that user holds the permission the resource requires
Permitted(params) ==
    /\ Authenticated(params)
    /\ permission \in UserPermissions(params.username[1])

\* the methods a list URL answers
ListMethods == {"GET", "POST"}

\* the ids of a set, in creation order
RECURSIVE InOrder(_)
InOrder(S) ==
    IF S = {} THEN <<>>
    ELSE LET m == CHOOSE x \in S : \A y \in S : x <= y
         IN <<m>> \o InOrder(S \ {m})

ListMeta(total) ==
    [limit |-> Limit,
     next |-> IF total > Limit THEN Some(Limit) ELSE None,
     offset |-> 0,
     previous |-> None,
     total_count |-> total]

ListObjects(recs) ==
    LET ids == InOrder(DOMAIN recs)
    IN [i \in 1..(IF Len(ids) < Limit THEN Len(ids) ELSE Limit) |->
            backend_data(recs, ids[i])]

\* the response to a request
Response(req, status, location, meta, objects) ==
    [req |-> req, status |-> status, location |-> location,
     meta |-> meta, objects |-> objects]

NoResponse == Response(Request("none", "none", 0, no_credentials, None),
                       0, None, None, <<>>)

Answer(req, status) == Response(req, status, None, None, <<>>)

\* the records a run may create: fewer while the clock moves
RecordLimit == IF mock_utcnow THEN MaxRecords ELSE MaxClockRecords

ApiInit ==
    /\ records = <<>>
    /\ nextId = 1
    /\ now = utcnow
    /\ resp = NoResponse

\* self.factory: a fixture written straight to the backend
Factory ==
    /\ nextId <= RecordLimit
    /\ records' = [i \in DOMAIN records \cup {nextId} |->
                     IF i = nextId THEN NewRecord(fixture_data, None, now)
                     ELSE records[i]]
    /\ nextId' = nextId + 1
    /\ resp' = NoResponse
    /\ UNCHANGED now
    /\ UNCHANGED apiFrame

\* the clock moves on; under the tests' setUp it stays at utcnow
Tick ==
    /\ ~mock_utcnow
    /\ now < utcnow + MaxTicks
    /\ now' = now + 1
    /\ resp' = NoResponse
    /\ UNCHANGED <<records, nextId>>
    /\ UNCHANGED apiFrame

\* POST to the list URL
PostList(req) ==
    /\ UNCHANGED apiFrame
    /\ req.method = "POST" /\ req.target = "list"
    /\ IF ~Permitted(req.params)
       THEN /\ resp' = Answer(req, HTTP_UNAUTHORIZED)
            /\ UNCHANGED <<records, nextId, now>>
       ELSE /\ nextId <= RecordLimit
            /\ records' = [i \in DOMAIN records \cup {nextId} |->
                             IF i = nextId
                             THEN NewRecord(req.payload[1],
                                            req.params.username, now)
                             ELSE records[i]]
            /\ nextId' = nextId + 1
            /\ resp' = Response(req, HTTP_CREATED,
                                Some(get_detail_url(nextId)), None, <<>>)
            /\ UNCHANGED now

\* GET on the list URL
GetList(req) ==
    /\ UNCHANGED apiFrame
    /\ req.method = "GET" /\ req.target = "list"
    /\ resp' = Response(req, HTTP_OK, None,
                        Some(ListMeta(Cardinality(DOMAIN records))),
                        ListObjects(records))
    /\ UNCHANGED <<records, nextId, now>>

\* GET on a detail URL
GetDetail(req) ==
    /\ UNCHANGED apiFrame
    /\ req.method = "GET" /\ req.target = "detail"
    /\ resp' = IF Exists(records, req.id)
               THEN Response(req, HTTP_OK, None, None,
                             <<backend_data(records, req.id)>>)
               ELSE Answer(req, HTTP_NOT_FOUND)
    /\ UNCHANGED <<records, nextId, now>>

\* a method the list URL does not answer (PUT, DELETE)
ListMutation(req) ==
    /\ UNCHANGED apiFrame
    /\ req.target = "list" /\ req.method \notin ListMethods
    /\ resp' = Answer(req, HTTP_METHOD_NOT_ALLOWED)
    /\ UNCHANGED <<records, nextId, now>>

\* PUT on a detail URL
PutDetail(req) ==
    /\ UNCHANGED apiFrame
    /\ req.method = "PUT" /\ req.target = "detail"
    /\ IF ~Permitted(req.params)
       THEN /\ resp' = Answer(req, HTTP_UNAUTHORIZED)
            /\ UNCHANGED <<records, nextId, now>>
       ELSE IF ~Exists(records, req.id)
       THEN /\ resp' = Answer(req, HTTP_NOT_FOUND)
            /\ UNCHANGED <<records, nextId, now>>
       ELSE /\ records' = [records EXCEPT ![req.id] =
                             [@ EXCEPT !.fields = req.payload[1],
                                       !.modified_by = req.params.username,
                                       !.modified_on = Some(now)]]
            /\ resp' = Answer(req, HTTP_NO_CONTENT)
            /\ UNCHANGED <<nextId, now>>

\* DELETE on a detail URL
DeleteDetail(req) ==
    /\ UNCHANGED apiFrame
    /\ req.method = "DELETE" /\ req.target = "detail"
    /\ IF ~Permitted(req.params)
       THEN /\ resp' = Answer(req, HTTP_UNAUTHORIZED)
            /\ UNCHANGED <<records, nextId, now>>
       ELSE IF ~Exists(records, req.id)
       THEN /\ resp' = Answer(req, HTTP_NOT_FOUND)
            /\ UNCHANGED <<records, nextId, now>>
       ELSE /\ records' = IF req.params.permanent
                          THEN [i \in DOMAIN records \ {req.id} |->
                                  records[i]]
                          ELSE [records EXCEPT ![req.id] =
                                  [@ EXCEPT
                                      !.deleted_by = req.params.username,
                                      !.deleted_on = Some(now)]]
            /\ resp' = Answer(req, HTTP_NO_CONTENT)
            /\ UNCHANGED <<nextId, now>>

ApiNext ==
    \/ Factory
    \/ \E req \in Requests : PostList(req)
    \/ \E req \in Requests : GetList(req)
    \/ \E req \in Requests : GetDetail(req)
    \/ \E req \in Requests : ListMutation(req)
    \/ \E req \in Requests : PutDetail(req)
    \/ \E req \in Requests : DeleteDetail(req)

---------------------------------------------------------------------------
(* AddEditForm (src/ui/tcmui/core/forms.py).                               *)

\* the fields of the form, and the model attribute a mapped field goes to
FieldNames == {"name", "product", "team"}

ModelName == [name |-> "title", product |-> "product_id", team |-> "team_id"]

\* a field name a conflict may report that is no field of the form
ForeignField == "environment"

\* the field_mapping, no_edit_fields and assign_later of the form classes
FieldMappings ==
    { [f \in S |-> ModelName[f]] : S \in {{}, {"product"}, {"name", "product"}} }

NoEditChoices == {{}, {"product"}, {"name", "team"}}

AssignLaterChoices == {{}, {"team"}, {"product", "team"}}

RequiredChoices == {{"name"}, {"name", "product"}}

\* the cleaned value of a field, and the value an attribute has on the
\* remote object before the form touches it
CleanedValue(fname) == <<"cleaned", fname>>
StoredValue(attr) == <<"stored", attr>>

\* d[k] = v
DictSet(d, k, v) == [x \in DOMAIN d \cup {k} |-> IF x = k THEN v ELSE d[x]]

form_to_model(formfield) ==
    IF formfield \in DOMAIN field_mapping
    THEN field_mapping[formfield]
    ELSE formfield

\* the loop of prep_form_data over the entries not yet visited
RECURSIVE prep_loop(_, _, _, _, _)
prep_loop(names, data, editing, immediate, obj_dict) ==
    IF names = {} THEN obj_dict
    ELSE LET fname == CHOOSE n \in names : TRUE
             rest == names \ {fname}
         IN IF immediate /\ fname \in assign_later
            THEN prep_loop(rest, data, editing, immediate, obj_dict)
            ELSE IF editing /\ fname \in no_edit_fields
            THEN prep_loop(rest, data, editing, immediate, obj_dict)
            ELSE prep_loop(rest, data, editing, immediate,
                           DictSet(obj_dict, form_to_model(fname),
                                   data[fname]))

\* mutant: the editing flag is not honoured
prep_form_data_ignores_editing(data, editing, immediate) ==
    prep_loop(DOMAIN data, data, FALSE, immediate, <<>>)

prep_form_data(data, editing, immediate) ==
    prep_loop(DOMAIN data, data, editing, immediate, <<>>)

\* the loop of handle_error over the reported fields, in order; the result is
\* the _errors it leaves and the ValidationError it raises, if any
RECURSIVE handle_loop(_, _, _)
handle_loop(flds, message, errs) ==
    IF flds = <<>> THEN [errors |-> errs, raised |-> None]
    ELSE IF Head(flds) \in DOMAIN fields
    THEN handle_loop(Tail(flds), message,
                     DictSet(errs, Head(flds), <<message>>))
    ELSE [errors |-> errs, raised |-> Some(message)]

\* mutant: a reported field the form does not have is passed over
handle_error_skips_unknown(err, errs) ==
    handle_loop(SelectSeq(err.fields, LAMBDA f : f \in DOMAIN fields),
                err.message, errs)

\* err stands for errors.error_message_and_fields(obj, err)
handle_error(err, errs) == handle_loop(err.fields, err.message, errs)

RECURSIVE SeqsUpTo(_, _)
SeqsUpTo(S, n) ==
    IF n = 0 THEN {<<>>}
    ELSE LET shorter == SeqsUpTo(S, n - 1)
         IN shorter \cup { Append(q, x) : q \in shorter, x \in S }

\* the conflicts the remote API may answer with
Conflicts ==
    { [message |-> "conflict", fields |-> flds] :
        flds \in SeqsUpTo(FieldNames \cup {ForeignField}, MaxErrFields) }

NoCall == [op |-> "none"]

FormIdle ==
    /\ fields = [f \in FieldNames |-> [required |-> FALSE]]
    /\ field_mapping = <<>>
    /\ no_edit_fields = {}
    /\ assign_later = {}
    /\ instance = None
    /\ cleaned_data = <<>>
    /\ errors = <<>>
    /\ call = NoCall

\* a bound form after its fields have been cleaned: a field is in
\* cleaned_data or has a field error; the instance, if any, is the remote
\* object being edited
FormInit ==
    /\ \E req \in RequiredChoices :
          fields = [f \in FieldNames |-> [required |-> f \in req]]
    /\ field_mapping \in FieldMappings
    /\ no_edit_fields \in NoEditChoices
    /\ assign_later \in AssignLaterChoices
    /\ \E valid \in SUBSET FieldNames :
          /\ cleaned_data = [f \in valid |-> CleanedValue(f)]
          /\ errors = [f \in FieldNames \ valid |-> <<"invalid">>]
    /\ \/ instance = None
       \/ instance = Some([a \in { form_to_model(f) : f \in FieldNames } |->
                              StoredValue(a)])
    /\ call = NoCall

\* prep_form_data(self.cleaned_data, editing, immediate)
PrepFormData(editing, immediate) ==
    /\ call = NoCall
    /\ call' = [op |-> "prep_form_data", editing |-> editing,
                immediate |-> immediate,
                result |-> prep_form_data(cleaned_data, editing, immediate)]
    /\ UNCHANGED <<fields, field_mapping, no_edit_fields, assign_later,
                   instance, cleaned_data, errors>>
    /\ UNCHANGED formFrame

\* handle_error(obj, err)
HandleError(err) ==
    /\ call = NoCall
    /\ LET out == handle_error(err, errors)
       IN /\ errors' = out.errors
          /\ call' = [op |-> "handle_error", err |-> err,
                      raised |-> out.raised]
    /\ UNCHANGED <<fields, field_mapping, no_edit_fields, assign_later,
                   instance, cleaned_data>>
    /\ UNCHANGED formFrame

\* the attributes of obj after setattr(obj, k, v) for every item of obj_dict
SetAttrs(attrs, obj_dict) ==
    [a \in DOMAIN attrs \cup DOMAIN obj_dict |->
        IF a \in DOMAIN obj_dict THEN obj_dict[a] ELSE attrs[a]]

\* edit_clean(): the attributes it assigns, the object it puts, the Conflict
\* the put raised (None when it succeeded), and the instance, the _errors and
\* the ValidationError it leaves
edit_clean(conflict) ==
    LET obj_dict == prep_form_data(cleaned_data, TRUE, TRUE)
        attrs == SetAttrs(instance[1], obj_dict)
        out == IF conflict = None
               THEN [errors |-> errors, raised |-> None]
               ELSE handle_error(conflict[1], errors)
    IN [assigned |-> DOMAIN obj_dict, put |-> attrs, conflict |-> conflict,
        instance |-> Some(attrs),
        errors |-> out.errors, raised |-> out.raised]

\* edit_clean() on a form with an instance; conflict is None when
\* self.instance.put() succeeds, and the Conflict it raises otherwise
EditClean(conflict) ==
    /\ call = NoCall
    /\ instance # None
    /\ LET out == edit_clean(conflict)
       IN /\ instance' = out.instance
          /\ errors' = out.errors
          /\ call' = [op |-> "edit_clean",
                      before |-> instance[1],
                      assigned |-> out.assigned,
                      put |-> out.put,
                      conflict |-> conflict,
                      raised |-> out.raised,
                      returned |-> IF out.raised = None
                                   THEN Some(cleaned_data) ELSE None]
    /\ UNCHANGED <<fields, field_mapping, no_edit_fields, assign_later,
                   cleaned_data>>
    /\ UNCHANGED formFrame

\* the names of the required fields of the form
required_fields == { n \in DOMAIN fields : fields[n].required }

\* the class attribute extra_creation_data
extra_creation_data == <<>>

\* mutant: the object is kept as the instance although its post conflicted
add_clean_keeps_conflicting_obj(conflict) ==
    LET obj == SetAttrs(prep_form_data(cleaned_data, FALSE, TRUE),
                        extra_creation_data)
        out == IF conflict = None
               THEN [errors |-> errors, raised |-> None]
               ELSE handle_error(conflict[1], errors)
    IN IF \A k \in required_fields : k \in DOMAIN cleaned_data
       THEN [posts |-> <<obj>>, conflict |-> conflict,
             instance |-> Some(obj),
             errors |-> out.errors, raised |-> out.raised]
       ELSE [posts |-> <<>>, conflict |-> None, instance |-> instance,
             errors |-> errors, raised |-> None]

\* add_clean(): the objects it posts to the list, the Conflict the post
\* raised (None when it succeeded or was not made), and the instance, the
\* _errors and the ValidationError it leaves
add_clean(conflict) ==
    LET obj == SetAttrs(prep_form_data(cleaned_data, FALSE, TRUE),
                        extra_creation_data)
        out == IF conflict = None
               THEN [errors |-> errors, raised |-> None]
               ELSE handle_error(conflict[1], errors)
    IN IF \A k \in required_fields : k \in DOMAIN cleaned_data
       THEN [posts |-> <<obj>>, conflict |-> conflict,
             instance |-> IF conflict = None THEN Some(obj) ELSE instance,
             errors |-> out.errors, raised |-> out.raised]
       ELSE [posts |-> <<>>, conflict |-> None, instance |-> instance,
             errors |-> errors, raised |-> None]

\* add_clean() on a form without an instance; conflict is None when the post
\* succeeds, and the Conflict it raises otherwise
AddClean(conflict) ==
    /\ call = NoCall
    /\ instance = None
    /\ LET out == add_clean(conflict)
       IN /\ instance' = out.instance
          /\ errors' = out.errors
          /\ call' = [op |-> "add_clean",
                      posts |-> out.posts,
                      conflict |-> out.conflict,
                      raised |-> out.raised,
                      returned |-> IF out.raised = None
                                   THEN Some(cleaned_data) ELSE None]
    /\ UNCHANGED <<fields, field_mapping, no_edit_fields, assign_later,
                   cleaned_data>>
    /\ UNCHANGED formFrame

\* prep_assign_later_data(data, editing)
prep_assign_later_data(data, editing) ==
    prep_form_data([k \in DOMAIN data \cap assign_later |-> data[k]],
                   editing, FALSE)

\* the orders in which iteritems() may visit the keys S of a dict
Orders(S) ==
    { q \in SeqsUpTo(S, Cardinality(S)) :
        /\ Len(q) = Cardinality(S)
        /\ \A i, j \in 1..Len(q) : i # j => q[i] # q[j] }

\* the conflicts a save or a deferred assignment of clean may be answered
\* with: those reporting no field, a field of the form or a foreign field
CleanConflicts ==
    { [message |-> "conflict", fields |-> flds] :
        flds \in SeqsUpTo(FieldNames \cup {ForeignField}, 1) }

\* how the deferred assignments of n fields may go: all succeed (None), or
\* the setattr or the refresh of the at-th field raises Conflict
Failures(n) ==
    {None} \cup
    { Some([at |-> k, step |-> st, err |-> c]) :
        k \in 1..n, st \in {"setattr", "refresh"}, c \in CleanConflicts }

\* the loop of clean over the deferred assignments from the k-th on; st holds
\* the attributes of self.instance, the attributes set and the number of
\* refreshes so far
RECURSIVE assign_loop(_, _, _, _, _)
assign_loop(order, data, k, failure, st) ==
    IF k > Len(order)
    THEN [attrs |-> st.attrs, sets |-> st.sets, refreshes |-> st.refreshes,
          conflict |-> None]
    ELSE LET fname == order[k]
             fails(step) == /\ failure # None
                            /\ failure[1].at = k
                            /\ failure[1].step = step
             attrs == DictSet(st.attrs, fname, data[fname])
             sets == Append(st.sets, fname)
         IN IF fails("setattr")
            THEN [attrs |-> st.attrs, sets |-> st.sets,
                  refreshes |-> st.refreshes,
                  conflict |-> Some(failure[1].err)]
            ELSE IF fails("refresh")
            THEN [attrs |-> attrs, sets |-> sets,
                  refreshes |-> st.refreshes,
                  conflict |-> Some(failure[1].err)]
            ELSE assign_loop(order, data, k + 1, failure,
                             [attrs |-> attrs, sets |-> sets,
                              refreshes |-> st.refreshes + 1])

\* mutant: the instance is deleted whether or not the form was editing
rollback_also_when_editing(editing, conflict, attrs) ==
    IF conflict # None THEN <<attrs>> ELSE <<>>

\* the except clause of clean: the objects deleted once the deferred
\* assignments have ended with the given Conflict (None: with none)
rollback(editing, conflict, attrs) ==
    IF conflict # None /\ ~editing THEN <<attrs>> ELSE <<>>

\* clean(): the immediate save by add_clean or edit_clean, then the deferred
\* assignments in the given order.  The result names the posts and puts made,
\* the Conflict of the immediate save, the attributes set and the refreshes
\* done afterwards, the Conflict that stopped them, the objects deleted, and
\* the instance, the _errors and the ValidationError clean leaves.
clean(conflict, order, failure) ==
    LET editing == instance # None
        first == IF instance = None
                 THEN add_clean(conflict) ELSE edit_clean(conflict)
        posts == IF editing THEN <<>> ELSE first.posts
        puts == IF editing THEN <<first.put>> ELSE <<>>
    IN IF first.raised # None \/ first.instance = None
       THEN [editing |-> editing, posts |-> posts, puts |-> puts,
             conflict |-> first.conflict, sets |-> <<>>, refreshes |-> 0,
             later |-> None, deleted |-> <<>>,
             instance |-> first.instance, errors |-> first.errors,
             raised |-> first.raised]
       ELSE LET data == prep_assign_later_data(cleaned_data, FALSE)
                loop == assign_loop(order, data, 1, failure,
                                    [attrs |-> first.instance[1],
                                     sets |-> <<>>, refreshes |-> 0])
                out == IF loop.conflict = None
                       THEN [errors |-> first.errors, raised |-> None]
                       ELSE handle_error(loop.conflict[1], first.errors)
            IN [editing |-> editing, posts |-> posts, puts |-> puts,
                conflict |-> first.conflict, sets |-> loop.sets,
                refreshes |-> loop.refreshes, later |-> loop.conflict,
                deleted |-> rollback(editing, loop.conflict, loop.attrs),
                instance |-> Some(loop.attrs), errors |-> out.errors,
                raised |-> out.raised]

\* clean(); conflict is the outcome of the post or put, order the order in
\* which the deferred assignments are visited and failure how they go
Clean(conflict, order, failure) ==
    /\ call = NoCall
    /\ LET out == clean(conflict, order, failure)
       IN /\ instance' = out.instance
          /\ errors' = out.errors
          /\ call' = [op |-> "clean",
                      before |-> instance,
                      editing |-> out.editing,
                      posts |-> out.posts,
                      puts |-> out.puts,
                      saved |-> out.conflict,
                      sets |-> out.sets,
                      refreshes |-> out.refreshes,
                      later |-> out.later,
                      deleted |-> out.deleted,
                      raised |-> out.raised,
                      returned |-> IF out.raised = None
                                   THEN Some(cleaned_data) ELSE None]
    /\ UNCHANGED <<fields, field_mapping, no_edit_fields, assign_later,
                   cleaned_data>>
    /\ UNCHANGED formFrame

FormNext ==
    \/ \E editing \in BOOLEAN, immediate \in BOOLEAN :
          PrepFormData(editing, immediate)
    \/ \E err \in Conflicts : HandleError(err)
    \/ \E conflict \in {None} \cup { Some(c) : c \in Conflicts } :
          EditClean(conflict)
    \/ \E conflict \in {None} \cup { Some(c) : c \in Conflicts } :
          AddClean(conflict)
    \/ \E conflict \in {None} \cup { Some(c) : c \in CleanConflicts } :
          \E order \in Orders(DOMAIN prep_assign_later_data(cleaned_data,
                                                            FALSE)) :
             \E failure \in Failures(Len(order)) :
                Clean(conflict, order, failure)

---------------------------------------------------------------------------
(* ModelChoiceField and ModelChoiceIterator (src/ui/tcmui/core/forms.py).  *)

\* the remote objects a choice list may hold
Objects ==
    { [id |-> "1", name |-> "Foo"],
      [id |-> "2", name |-> "Bar"],
      [id |-> "3", name |-> "Baz"] }

\* the lists of distinct objects assigned to obj_list
ObjLists ==
    { l \in SeqsUpTo(Objects, MaxObjList) :
        \A i, j \in 1..Len(l) : i # j => l[i] # l[j] }

\* the default empty_label argument
DefaultEmptyLabel == "---------"

\* ModelChoiceField.__init__: the empty_label the field keeps
init_empty_label(empty_label_arg, required_arg, initial) ==
    IF required_arg /\ initial # None THEN None ELSE empty_label_arg

\* _set_obj_list: the map from id to object
make_obj_map(l) ==
    [k \in { l[i].id : i \in 1..Len(l) } |->
        l[CHOOSE i \in 1..Len(l) :
            /\ l[i].id = k
            /\ \A j \in 1..Len(l) : l[j].id = k => j <= i]]

prepare_value(value) == IF "id" \in DOMAIN value THEN value.id ELSE value

label_from_instance(obj) == obj.name

\* ModelChoiceIterator.choice
choice(obj) == <<prepare_value(obj), label_from_instance(obj)>>

\* mutant: the cached choices are rebuilt whenever they differ from obj_list
iter_choices_refreshes_cache(it_obj_list) ==
    LET first == IF empty_label # None
                 THEN << <<"", empty_label[1]>> >> ELSE <<>>
        computed == [i \in 1..Len(it_obj_list) |-> choice(it_obj_list[i])]
    IN IF cache_choices
       THEN [yielded |-> first \o computed,
             cache |-> Some(computed),
             computed |-> choice_cache # Some(computed)]
       ELSE [yielded |-> first \o computed, cache |-> choice_cache,
             computed |-> TRUE]

\* ModelChoiceIterator.__iter__, run to the end: what it yields, the
\* choice_cache it leaves and whether it computed the per-object choices
iter_choices(it_obj_list) ==
    LET first == IF empty_label # None
                 THEN << <<"", empty_label[1]>> >> ELSE <<>>
        computed == [i \in 1..Len(it_obj_list) |-> choice(it_obj_list[i])]
    IN IF cache_choices
       THEN IF choice_cache = None
            THEN [yielded |-> first \o computed, cache |-> Some(computed),
                  computed |-> TRUE]
            ELSE [yielded |-> first \o choice_cache[1],
                  cache |-> choice_cache, computed |-> FALSE]
       ELSE [yielded |-> first \o computed, cache |-> choice_cache,
             computed |-> TRUE]

\* ModelChoiceIterator.__len__
len_choices(it_obj_list) == Len(it_obj_list)

NoIteration == [op |-> "none"]

ChoiceIdle ==
    /\ multiple = FALSE
    /\ empty_label = None
    /\ cache_choices = FALSE
    /\ required = TRUE
    /\ obj_list = <<>>
    /\ obj_map = <<>>
    /\ choice_cache = None
    /\ widget_choices = <<>>
    /\ last = NoIteration

\* the field after ModelChoiceField.__init__, which
\* ModelMultipleChoiceField.__init__ calls with None as empty_label
ChoiceInit ==
    /\ multiple \in BOOLEAN
    /\ \E empty_label_arg \in {None, Some(DefaultEmptyLabel)},
          initial \in {None, Some("1")} :
            /\ required \in BOOLEAN
            /\ empty_label =
                  init_empty_label(IF multiple THEN None ELSE empty_label_arg,
                                   required, initial)
    /\ cache_choices \in BOOLEAN
    /\ obj_list = <<>>
    /\ obj_map = make_obj_map(<<>>)
    /\ widget_choices = <<>>
    /\ choice_cache = None
    /\ last = NoIteration

\* field.obj_list = l
SetObjList(l) ==
    /\ obj_list' = l
    /\ obj_map' = make_obj_map(l)
    /\ widget_choices' = l
    /\ last' = NoIteration
    /\ UNCHANGED <<multiple, empty_label, cache_choices, required,
                   choice_cache>>
    /\ UNCHANGED choiceFrame

\* list(field.choices) or list(field.widget.choices), and len() of the same
\* iterator
IterateChoices(source) ==
    LET it_obj_list == IF source = "field" THEN obj_list ELSE widget_choices
        out == iter_choices(it_obj_list)
    IN /\ choice_cache' = out.cache
       /\ last' = [op |-> "iterate", source |-> source,
                   obj_list |-> it_obj_list, cache_before |-> choice_cache,
                   yielded |-> out.yielded, computed |-> out.computed,
                   len |-> len_choices(it_obj_list)]
       /\ UNCHANGED <<multiple, empty_label, cache_choices, required,
                      obj_list, obj_map, widget_choices>>
       /\ UNCHANGED choiceFrame

\* the values a form may hand to a field
PyNone == [type |-> "NoneType"]
Unicode(str) == [type |-> "unicode", s |-> str]
List(items) == [type |-> "list", items |-> items]
Tuple(items) == [type |-> "tuple", items |-> items]
Dict(items) == [type |-> "dict", items |-> items]

\* [None, "", [], (), {}]
EmptyValues == {PyNone, Unicode(""), List(<<>>), Tuple(<<>>), Dict(<<>>)}

\* the ids a submitted value may name: those of Objects and one of no object
SubmittedIds == { o.id : o \in Objects } \cup {"9"}

\* the values the Select widget submits, and the empty values
SingleValues == EmptyValues \cup { Unicode(i) : i \in SubmittedIds }

\* self.error_messages: default_error_messages of the field's class over
\* those of forms.Field
error_messages ==
    IF multiple
    THEN [required |-> "This field is required.",
          list |-> "Enter a list of values.",
          invalid_choice |-> "Select a valid choice. %s is not one of the"
                             \o " available choices."]
    ELSE [required |-> "This field is required.",
          invalid_choice |-> "Select a valid choice. That choice is not one of"
                             \o " the available choices."]

\* a call that returned value, and one that raised ValidationError(message);
\* a message is its text, followed by the value formatted into it if any
Return(value) == [returned |-> Some(value), raised |-> None]
Raise(message) == [returned |-> None, raised |-> Some(message)]

\* template % val
Format(template, val) == <<template, val>>

\* value is a key of self._obj_map
IsKey(value) == value.type = "unicode" /\ value.s \in DOMAIN obj_map

\* mutant: a value that is no key of _obj_map cleans to None
to_python_unknown_is_none(value) ==
    IF value \in EmptyValues THEN Return(PyNone)
    ELSE IF IsKey(value) THEN Return(obj_map[value.s])
    ELSE Return(PyNone)

\* ModelChoiceField.to_python
to_python(value) ==
    IF value \in EmptyValues THEN Return(PyNone)
    ELSE IF IsKey(value) THEN Return(obj_map[value.s])
    ELSE Raise(<<error_messages.invalid_choice>>)

\* field.to_python(value)
ToPython(value) ==
    /\ last' = [op |-> "to_python", value |-> value, out |-> to_python(value)]
    /\ UNCHANGED <<multiple, empty_label, cache_choices, required, obj_list,
                   obj_map, choice_cache, widget_choices>>
    /\ UNCHANGED choiceFrame

\* the values a SelectMultiple widget or a caller may hand to clean: the
\* empty values, a string, lists of submitted ids and one-element tuples
MultipleValues ==
    EmptyValues \cup {Unicode("1")} \cup
    { List([i \in 1..Len(q) |-> Unicode(q[i])]) :
        q \in SeqsUpTo(SubmittedIds, MaxValues) } \cup
    { Tuple(<<Unicode(i)>>) : i \in SubmittedIds }

\* the validators of the field: forms.Field has none unless they are passed in
validators == <<>>

\* self.run_validators(value): the validators that reject the value, a
\* validator being the set of values it rejects; empty values are not validated
run_validators(value) ==
    IF value \in EmptyValues THEN <<>>
    ELSE SelectSeq(validators, LAMBDA v : value \in v)

\* the loop of ModelMultipleChoiceField.clean over the values not yet
\* looked up; objs are the objects found so far
RECURSIVE lookup_loop(_, _)
lookup_loop(vals, objs) ==
    IF vals = <<>> THEN Return(objs)
    ELSE IF IsKey(Head(vals))
    THEN lookup_loop(Tail(vals), Append(objs, obj_map[Head(vals).s]))
    ELSE Raise(Format(error_messages.invalid_choice, Head(vals).s))

\* mutant: the type of the value is tested before its emptiness
clean_multiple_list_test_first(value) ==
    IF value.type \notin {"list", "tuple"}
    THEN Raise(<<error_messages.list>>)
    ELSE IF required /\ value \in EmptyValues
    THEN Raise(<<error_messages.required>>)
    ELSE IF ~required /\ value \in EmptyValues
    THEN Return(<<>>)
    ELSE lookup_loop(value.items, <<>>)

\* ModelMultipleChoiceField.clean
clean_multiple(value) ==
    IF required /\ value \in EmptyValues
    THEN Raise(<<error_messages.required>>)
    ELSE IF ~required /\ value \in EmptyValues
    THEN Return(<<>>)
    ELSE IF value.type \notin {"list", "tuple"}
    THEN Raise(<<error_messages.list>>)
    ELSE LET found == lookup_loop(value.items, <<>>)
         IN IF found.raised # None THEN found
            ELSE IF run_validators(value) # <<>>
            THEN Raise(run_validators(value))
            ELSE found

\* field.clean(value) on a ModelMultipleChoiceField
CleanMultiple(value) ==
    /\ multiple
    /\ last' = [op |-> "clean", value |-> value, out |-> clean_multiple(value)]
    /\ UNCHANGED <<multiple, empty_label, cache_choices, required, obj_list,
                   obj_map, choice_cache, widget_choices>>
    /\ UNCHANGED choiceFrame

ChoiceNext ==
    \/ \E value \in MultipleValues : CleanMultiple(value)
    \/ \E value \in SingleValues : ToPython(value)
    \/ \E l \in ObjLists : SetObjList(l)
    \/ \E source \in {"field", "widget"} : IterateChoices(source)

---------------------------------------------------------------------------
(* The specifications.                                                     *)

\* the API as the test cases run it: setUp has frozen the clock at utcnow
Init == ApiInit /\ mock_utcnow = TRUE /\ FormIdle /\ ChoiceIdle

Next == ApiNext

Spec == Init /\ [][Next]_vars

\* the same API with the clock moving
InitClock == ApiInit /\ mock_utcnow = FALSE /\ FormIdle /\ ChoiceIdle

NextClock == ApiNext \/ Tick

SpecClock == InitClock /\ [][NextClock]_vars

InitForm == FormInit /\ ApiInit /\ mock_utcnow = TRUE /\ ChoiceIdle

NextForm == FormNext

SpecForm == InitForm /\ [][NextForm]_vars

InitChoice == ChoiceInit /\ ApiInit /\ mock_utcnow = TRUE /\ FormIdle

NextChoice == ChoiceNext

SpecChoice == InitChoice /\ [][NextChoice]_vars

---------------------------------------------------------------------------
(* Claims about the resource API.  In a step, resp' is the request the     *)
(* step served together with its response, records is the storage the      *)
(* request found and records' the storage it left.                         *)

Unset(recs, id) == recs[id].deleted_on = None /\ recs[id].deleted_by = None

\* C1: a DELETE on the detail URL of a stored record whose deleted_on and
\* deleted_by are unset, sent with the credentials of the permitted user and
\* without the permanent flag, is answered 204; the record is still in the
\* backend afterwards, with deleted_on the current time and deleted_by the
\* requesting user.
C1_SoftDelete ==
    [][\A id \in Ids :
        (/\ resp'.req = delete_soft_request(id)
         /\ Exists(records, id)
         /\ Unset(records, id))
        => /\ resp'.status = HTTP_NO_CONTENT
           /\ Exists(records', id)
           /\ backend_meta_data(records', id).deleted_on = Some(now)
           /\ backend_meta_data(records', id).deleted_by = Some(user)
           /\ backend_data(records', id) = backend_data(records, id)]_vars

C1_Witness ==
    \E id \in Ids :
        /\ resp = Answer(delete_soft_request(id), HTTP_NO_CONTENT)
        /\ Exists(records, id)
        /\ records[id].created_on = Some(utcnow)
        /\ now > utcnow
        /\ records[id].deleted_on = Some(now)
        /\ records[id].deleted_by = Some(user)

\* C2: a DELETE on the detail URL of a stored record, sent with permitted
\* credentials and permanent=True, is answered 204 and removes the record;
\* and an id whose record has been removed is never found in the backend
\* again.
C2_PermanentDelete ==
    [][/\ \A id \in Ids :
            (resp'.req = delete_permanent_request(id) /\ Exists(records, id))
            => (resp'.status = HTTP_NO_CONTENT /\ ~Exists(records', id))
       /\ \A id \in Ids :
            (id < nextId /\ ~Exists(records, id)) => ~Exists(records', id)]_vars

C2_Witness ==
    \E id \in Ids :
        /\ resp = Answer(delete_permanent_request(id), HTTP_NO_CONTENT)
        /\ ~Exists(records, id)
        /\ id < nextId
        /\ \E other \in Ids : other > id /\ Exists(records, other)

\* C3: a DELETE on a detail URL sent with the credentials of the user who
\* holds only the wrong permission is answered 401 and changes nothing: the
\* record is still in the backend, its deleted_on and deleted_by still unset.
C3_DeleteWrongPerms ==
    [][\A id \in Ids :
        (/\ resp'.req = delete_wrong_perms_request(id)
         /\ Exists(records, id)
         /\ Unset(records, id))
        => /\ resp'.status = HTTP_UNAUTHORIZED
           /\ records' = records
           /\ Exists(records', id)
           /\ Unset(records', id)]_vars

C3_Witness ==
    \E id \in Ids :
        /\ resp = Answer(delete_wrong_perms_request(id), HTTP_UNAUTHORIZED)
        /\ Exists(records, id)
        /\ Unset(records, id)

\* what a permitted POST of payload p leaves: a new record id holding exactly
\* the submitted values, stamped with the requesting user and the current time
Created(id, p) ==
    /\ ~Exists(records, id)
    /\ Exists(records', id)
    /\ resp'.location = Some(get_detail_url(id))
    /\ backend_data(records', id) =
          [id |-> id, resource_uri |-> get_detail_url(id), fields |-> p]
    /\ backend_meta_data(records', id).created_by = Some(user)
    /\ backend_meta_data(records', id).created_on = Some(now)
    /\ backend_meta_data(records', id).modified_by = Some(user)
    /\ backend_meta_data(records', id).modified_on = Some(now)

\* what a permitted PUT of payload p on record id leaves
Updated(id, p) ==
    /\ Exists(records', id)
    /\ backend_data(records', id) =
          [id |-> id, resource_uri |-> get_detail_url(id), fields |-> p]
    /\ backend_meta_data(records', id).modified_by = Some(user)
    /\ backend_meta_data(records', id).modified_on = Some(now)

\* C4 (as amended): a permitted POST to the list URL creates a record holding
\* exactly the submitted values (plus id and resource_uri) with created_by =
\* modified_by = the requesting user and created_on = modified_on = the
\* current time; a permitted PUT to a detail URL replaces the field values by
\* the submitted ones and sets modified_by to the requesting user and
\* modified_on to the current time, which differs from the earlier
\* modified_on unless the record was last written at that same time.
C4_WritesStamp ==
    [][/\ \A p \in Payloads :
            resp'.req = create_request(p)
            => (resp'.status = HTTP_CREATED /\ \E id \in Ids : Created(id, p))
       /\ \A id \in Ids, p \in Payloads :
            (resp'.req = update_request(id, p) /\ Exists(records, id))
            => /\ Updated(id, p)
               /\ (records'[id].modified_on # records[id].modified_on)
                    <=> (records[id].modified_on # Some(now))]_vars

C4_Witness ==
    \E id \in Ids, p \in Payloads :
        /\ resp.req = update_request(id, p)
        /\ resp.status = HTTP_NO_CONTENT
        /\ Exists(records, id)
        /\ records[id].fields = p
        /\ records[id].created_by = Some(user)
        /\ records[id].created_on = Some(utcnow)
        /\ records[id].modified_by = Some(user)
        /\ records[id].modified_on = Some(now)
        /\ now > utcnow

\* C4 as stated: ... and the modified_on a PUT sets differs from the earlier
\* modified_on.
C4_Original ==
    [][/\ \A p \in Payloads :
            resp'.req = create_request(p)
            => (resp'.status = HTTP_CREATED /\ \E id \in Ids : Created(id, p))
       /\ \A id \in Ids, p \in Payloads :
            (resp'.req = update_request(id, p) /\ Exists(records, id))
            => /\ Updated(id, p)
               /\ records'[id].modified_on # records[id].modified_on]_vars

\* C5: a POST to the list URL by a user who has the wrong permissions is
\* answered 401, and a PUT to a detail URL sent without credentials is
\* answered 401; neither write is accepted.
C5_WritesGated ==
    [][/\ \A p \in Payloads :
            resp'.req \in {create_wrong_perms_request(p),
                           create_wrong_user_request(p)}
            => /\ resp'.status = HTTP_UNAUTHORIZED
               /\ records' = records
               /\ nextId' = nextId
       /\ \A id \in Ids, p \in Payloads :
            resp'.req = update_without_creds_request(id, p)
            => /\ resp'.status = HTTP_UNAUTHORIZED
               /\ records' = records]_vars

C5_Witness ==
    \E id \in Ids, p \in Payloads :
        /\ resp = Answer(update_without_creds_request(id, p), HTTP_UNAUTHORIZED)
        /\ Exists(records, id)
        /\ records[id].fields # p
        /\ records[id].modified_by = None

\* C6: a PUT or a DELETE addressed to the list URL is answered 405 even with
\* valid permitted credentials, and changes or removes no record.
C6_ListMutationForbidden ==
    [][(resp'.req \in {delete_list_request}
                        \cup { update_list_request(p) : p \in Payloads })
        => /\ Permitted(resp'.req.params)
           /\ resp'.status = HTTP_METHOD_NOT_ALLOWED
           /\ records' = records]_vars

C6_Witness ==
    /\ resp = Answer(delete_list_request, HTTP_METHOD_NOT_ALLOWED)
    /\ Cardinality(DOMAIN records) = MaxRecords
    /\ \A id \in DOMAIN records : Unset(records, id)

\* C7: a GET on a detail URL without credentials returns exactly the backend
\* data of that record; a GET on the list URL without credentials returns the
\* backend data of every stored record, in creation order, with total_count
\* the number of stored records, limit 20, offset 0 and no next or previous
\* page when they fit in one page.
C7_ReadsMirrorBackend ==
    [][/\ \A id \in Ids :
            (resp'.req = read_detail_request(id) /\ Exists(records, id))
            => /\ resp'.status = HTTP_OK
               /\ resp'.objects = <<backend_data(records, id)>>
       /\ resp'.req = read_list_request
            => LET objs == resp'.objects
                   n == Cardinality(DOMAIN records)
               IN /\ resp'.status = HTTP_OK
                  /\ n <= Limit => resp'.meta = Some(exp_meta(n))
                  /\ n <= Limit => Len(objs) = n
                  /\ \A i \in 1..Len(objs) :
                        /\ Exists(records, objs[i].id)
                        /\ objs[i] = backend_data(records, objs[i].id)
                  /\ \A i, j \in 1..Len(objs) :
                        i < j =>
                          /\ objs[i].id < objs[j].id
                          /\ records[objs[i].id].created_on[1]
                               <= records[objs[j].id].created_on[1]
       /\ resp'.req.method = "GET" => records' = records]_vars

C7_Witness ==
    /\ resp.req = read_list_request
    /\ resp.status = HTTP_OK
    /\ Len(resp.objects) = 2
    /\ resp.meta = Some(exp_meta(2))
    /\ resp.objects[1].fields # resp.objects[2].fields
    /\ resp.objects[1].id = 1
    /\ resp.objects[2].id = 2

---------------------------------------------------------------------------
(* Claims about AddEditForm.                                               *)

\* the conflict handle_error has been given, by a direct call or by
\* edit_clean after a put that raised Conflict
Handled ==
    IF call.op = "handle_error" THEN Some(call.err)
    ELSE IF call.op = "edit_clean" THEN call.conflict
    ELSE None

\* C8: when handle_error receives a conflict whose reported fields are all
\* fields of the form, each of them ends up with the conflict message as its
\* error and nothing is raised; when a reported field is not a field of the
\* form, a ValidationError with that message is raised.
C8_ConflictIsFieldError ==
    Handled # None =>
        LET flds == Handled[1].fields
            message == Handled[1].message
        IN /\ (\A i \in 1..Len(flds) : flds[i] \in DOMAIN fields)
                => /\ call.raised = None
                   /\ \A i \in 1..Len(flds) :
                        /\ flds[i] \in DOMAIN errors
                        /\ errors[flds[i]] = <<message>>
           /\ (\E i \in 1..Len(flds) : flds[i] \notin DOMAIN fields)
                => call.raised = Some(message)

C8_Witness ==
    /\ call.op = "edit_clean"
    /\ call.conflict # None
    /\ call.raised = None
    /\ Len(call.conflict[1].fields) = 2
    /\ call.conflict[1].fields[1] # call.conflict[1].fields[2]
    /\ call.conflict[1].fields[1] \notin DOMAIN cleaned_data
    /\ \A i \in 1..2 : errors[call.conflict[1].fields[i]] = <<"conflict">>

\* the entries of data that prep_form_data does not skip
Kept(data, editing, immediate) ==
    { n \in DOMAIN data :
        /\ ~(immediate /\ n \in assign_later)
        /\ ~(editing /\ n \in no_edit_fields) }

\* C9: prep_form_data returns every entry's value under form_to_model(name),
\* except that assign_later entries are skipped when immediate and
\* no_edit_fields entries are skipped when editing; so edit_clean assigns no
\* no_edit_fields or assign_later field to the instance before the put.
C9_PrepFormData ==
    /\ call.op = "prep_form_data" =>
          LET kept == Kept(cleaned_data, call.editing, call.immediate)
          IN /\ DOMAIN call.result = { form_to_model(n) : n \in kept }
             /\ \A n \in kept : call.result[form_to_model(n)] = cleaned_data[n]
    /\ call.op = "edit_clean" =>
          /\ \A n \in no_edit_fields \cup assign_later :
                /\ form_to_model(n) \notin call.assigned
                /\ call.put[form_to_model(n)] = call.before[form_to_model(n)]
          /\ \A n \in DOMAIN cleaned_data \ (no_edit_fields \cup assign_later) :
                /\ form_to_model(n) \in call.assigned
                /\ call.put[form_to_model(n)] = cleaned_data[n]

C9_Witness ==
    /\ call.op = "edit_clean"
    /\ DOMAIN cleaned_data = FieldNames
    /\ no_edit_fields # {}
    /\ assign_later # {}
    /\ no_edit_fields # assign_later
    /\ call.assigned = {"title"}
    /\ call.put["title"] = CleanedValue("name")
    /\ call.put["product_id"] = StoredValue("product_id")

\* C11: add_clean posts a new entry to the list exactly when every required
\* field of the form is in cleaned_data, and it posts at most one; when a
\* required field is missing nothing is posted and instance stays None; when
\* the post raises Conflict the error is handled and instance stays None; only
\* when the post succeeds does instance become the posted object.
C11_AddClean ==
    call.op = "add_clean" =>
        LET complete == \A n \in FieldNames :
                            fields[n].required => n \in DOMAIN cleaned_data
        IN /\ Len(call.posts) <= 1
           /\ (Len(call.posts) = 1) <=> complete
           /\ ~complete => instance = None /\ call.raised = None
           /\ call.conflict # None =>
                 /\ complete
                 /\ instance = None
                 /\ call.raised # None \/
                      \A i \in 1..Len(call.conflict[1].fields) :
                         errors[call.conflict[1].fields[i]] = <<"conflict">>
           /\ (complete /\ call.conflict = None) =>
                 /\ instance = Some(call.posts[1])
                 /\ call.raised = None
                 /\ call.returned = Some(cleaned_data)
           /\ instance # None => complete /\ call.conflict = None

C11_Witness ==
    /\ call.op = "add_clean"
    /\ Len(call.posts) = 1
    /\ call.conflict # None
    /\ call.raised = None
    /\ call.conflict[1].fields = <<"name">>
    /\ errors["name"] = <<"conflict">>
    /\ instance = None
    /\ \E n \in FieldNames :
          ~fields[n].required /\ n \notin DOMAIN cleaned_data

\* the model attributes of the cleaned assign_later fields
LaterAttrs == { form_to_model(n) : n \in assign_later \cap DOMAIN cleaned_data }

\* a clean call reached its deferred assignments
ReachedLater ==
    /\ call.op = "clean"
    /\ instance # None
    /\ call.later # None \/ call.raised = None

\* C12: in clean, after the immediate save, the cleaned assign_later fields
\* are set on the instance one at a time, each followed by a refresh; when one
\* of these steps raises Conflict while adding, the object just created is
\* deleted and the error is handled; while editing, clean deletes nothing.
C12_ConflictRollback ==
    call.op = "clean" =>
        /\ \A i \in 1..Len(call.sets) :
              /\ call.sets[i] \in LaterAttrs
              /\ \A j \in 1..Len(call.sets) : i # j => call.sets[i] # call.sets[j]
        /\ (ReachedLater /\ call.later = None) =>
              /\ { call.sets[i] : i \in 1..Len(call.sets) } = LaterAttrs
              /\ call.refreshes = Len(call.sets)
              /\ \A n \in assign_later \cap DOMAIN cleaned_data :
                    instance[1][form_to_model(n)] = cleaned_data[n]
              /\ call.deleted = <<>>
        /\ call.later # None =>
              /\ call.refreshes <= Len(call.sets)
              /\ Len(call.sets) <= call.refreshes + 1
              /\ call.raised # None \/
                   \A i \in 1..Len(call.later[1].fields) :
                      errors[call.later[1].fields[i]] = <<"conflict">>
              /\ ~call.editing =>
                    /\ call.before = None
                    /\ Len(call.posts) = 1
                    /\ call.deleted = <<instance[1]>>
                    /\ \A a \in DOMAIN call.posts[1] :
                          instance[1][a] = call.posts[1][a]
        /\ call.editing => call.deleted = <<>>
        /\ call.deleted # <<>> => call.later # None /\ call.before = None

C12_Witness ==
    /\ call.op = "clean"
    /\ ~call.editing
    /\ Len(call.sets) = 2
    /\ call.refreshes = 1
    /\ call.later # None
    /\ call.later[1].fields = <<"team">>
    /\ call.deleted = <<instance[1]>>
    /\ errors["team"] = <<"conflict">>
    /\ call.raised = None

\* C15: in clean, an assign_later value is set on the instance only if the
\* immediate save of that clean call succeeded: the post in add mode or the
\* put in edit mode was made and did not raise Conflict.
C15_DeferredAfterSave ==
    (call.op = "clean" /\ (call.sets # <<>> \/ call.refreshes > 0)) =>
        /\ Len(call.posts) + Len(call.puts) = 1
        /\ call.saved = None

---------------------------------------------------------------------------
(* Claims about ModelChoiceField.                                          *)

\* the (id, label) choices of a list of objects, in order
ChoicesOf(l) == [i \in 1..Len(l) |-> <<l[i].id, l[i].name>>]

\* the empty-label choice an iteration starts with, if any
EmptyChoice ==
    IF empty_label # None THEN << <<"", empty_label[1]>> >> ELSE <<>>

\* what an iteration yielded after the empty-label choice
Yielded == SubSeq(last.yielded, Len(EmptyChoice) + 1, Len(last.yielded))

C10_Iteration ==
    last.op = "iterate" =>
        /\ Len(last.yielded) >= Len(EmptyChoice)
        /\ SubSeq(last.yielded, 1, Len(EmptyChoice)) = EmptyChoice
        /\ cache_choices =>
              /\ last.computed <=> (last.cache_before = None)
              /\ last.cache_before = None =>
                    /\ Yielded = ChoicesOf(last.obj_list)
                    /\ choice_cache = Some(Yielded)
              /\ last.cache_before # None =>
                    /\ Yielded = last.cache_before[1]
                    /\ choice_cache = last.cache_before
        /\ ~cache_choices =>
              /\ last.computed
              /\ Yielded = ChoicesOf(last.obj_list)
              /\ choice_cache = None

\* C10: iterating the choices yields the empty-label choice first when
\* empty_label is set, then one (id, label) choice per object of obj_list in
\* order; with cache_choices the per-object choices are computed on the first
\* iteration only and every later iteration yields that stored list; without
\* cache_choices every iteration computes them from obj_list.
C10_ChoiceIteration ==
    /\ []C10_Iteration
    /\ [][choice_cache # None => choice_cache' = choice_cache]_vars

C10_Witness ==
    /\ last.op = "iterate"
    /\ cache_choices
    /\ empty_label # None
    /\ ~last.computed
    /\ Len(last.yielded) = 3
    /\ last.yielded[1] = <<"", DefaultEmptyLabel>>
    /\ last.yielded[2] = <<"2", "Bar">>
    /\ last.yielded[3] = <<"1", "Foo">>
    /\ ChoicesOf(obj_list) # Yielded

\* the objects of obj_list whose id is the given string
Matching(str) == { i \in 1..Len(obj_list) : obj_list[i].id = str }

SubmittedItems == [i \in 1..Len(last.value.items) |-> last.value.items[i].s]

\* the positions of a submitted list that name no object of obj_list
Unknown == { k \in 1..Len(SubmittedItems) : Matching(SubmittedItems[k]) = {} }

\* C14: ModelMultipleChoiceField.clean decides in this order: an empty value
\* raises the required error when the field is required and yields the empty
\* list when it is not; a non-empty value that is no list or tuple raises the
\* list error; a list with a value that is the id of no object of obj_list
\* raises invalid_choice naming that value and returns nothing; otherwise the
\* objects of obj_list with the submitted ids are returned, in submitted
\* order, one per submitted value.
C14_MultipleClean ==
    last.op = "clean" =>
        LET value == last.value
            out == last.out
        IN IF value \in EmptyValues
           THEN IF required
                THEN out = Raise(<<"This field is required.">>)
                ELSE out = Return(<<>>)
           ELSE IF value.type \notin {"list", "tuple"}
           THEN out = Raise(<<"Enter a list of values.">>)
           ELSE IF Unknown # {}
           THEN /\ out.returned = None
                /\ \E k \in Unknown :
                      /\ \A j \in Unknown : k <= j
                      /\ out.raised =
                            Some(<<"Select a valid choice. %s is not one of the"
                                   \o " available choices.",
                                   SubmittedItems[k]>>)
           ELSE /\ out.raised = None
                /\ Len(out.returned[1]) = Len(SubmittedItems)
                /\ \A k \in 1..Len(SubmittedItems) :
                      /\ out.returned[1][k].id = SubmittedItems[k]
                      /\ \E i \in 1..Len(obj_list) :
                            out.returned[1][k] = obj_list[i]

C14_Witness ==
    /\ last.op = "clean"
    /\ Len(obj_list) = 2
    /\ last.value = List(<<Unicode("2"), Unicode("1")>>)
    /\ last.out.raised = None
    /\ last.out.returned = Some(<<obj_list[2], obj_list[1]>>)

\* the submitted strings to_python accepts
Accepted == { i \in SubmittedIds : to_python(Unicode(i)).raised = None }

\* the non-empty choice values an iteration yielded
Offered ==
    { last.yielded[k][1] : k \in 1..Len(last.yielded) } \ {""}

\* C16: after any assignments to obj_list and iterations of the choices, the
\* non-empty choice values that iterating field.choices yields are exactly the
\* values to_python accepts, the ids of the objects of the current obj_list,
\* and the len of the iterator is the number of choices it yields.
C16_OfferedIsAccepted ==
    (last.op = "iterate" /\ last.source = "field") =>
        /\ Offered = Accepted
        /\ Accepted = { obj_list[i].id : i \in 1..Len(obj_list) }
        /\ last.len = Len(last.yielded)

=============================================================================
